---- MODULE Spec2Model ----
(***************************************************************************)
(* State-machine model of lshbox::laItqLsh (include/lshbox/lsh/laitqlsh.h):*)
(* the ITQ hash index, its codec (save/load), its rebuild (rehash) and its *)
(* query strategies.                                                       *)
(*                                                                         *)
(* Conventions.                                                            *)
(*  - Floats are modelled by integers: every value the model feeds to the  *)
(*    hasher is a small integer, on which float arithmetic is exact.       *)
(*  - `unsigned` values stay far below 2^32 within the bounds (codes are   *)
(*    below 2^MaxN), so no wrap-around can occur.                          *)
(*  - C++ indices are 0-based; sequences here are 1-based.  Table and bit  *)
(*    numbers written to the call log are the 0-based numbers of the code. *)
(*  - assert() is modelled as compiled in: a failed assert aborts.         *)
(*  - A file is the sequence of the 4-byte words written to it.            *)
(***************************************************************************)
EXTENDS Integers, Sequences, FiniteSets, TLC

\* ------------------------------------------------------------------ bounds
MaxL == 2        \* Parameter.L ranges over 1..MaxL
MaxN == 2        \* Parameter.N ranges over 1..MaxN
Dim == 2         \* dimensionality of every vector; Parameter.D
MaxM == 1        \* Parameter.M
MaxSeed == 2     \* values std::time(0) can seed the generators with
MaxKey == 0      \* keys passed to insert range over 0..MaxKey
MaxPost == 3     \* insert/hash are cut off once a table would hold more ids
MaxT == 2        \* numTables passed to rehash ranges over 1..MaxT
MaxB == 3        \* maxNumBuckets passed to the queries ranges over -1..MaxB
MaxAux == 4      \* reset is not called again once rndArray would grow beyond it
MaxS == 3        \* Parameter.S ranges over 1..MaxS where train's sampling is stepped
MaxRows == 2     \* datasets of 1..MaxRows rows are handed to the stepped train

\* ------------------------------------------------------------- input sets
\* Components of inserted vectors and of query vectors.
DataVals == {-1, 1}
QueryVals == {-1, 0, 2}
DataVecs == [1..Dim -> DataVals]
QueryVecs == [1..Dim -> QueryVals]
\* Values an out-of-bounds float read can produce.
Garbage == {0, 7}
Seeds == 1..MaxSeed
\* The dataset handed to train, hash and rehash (Matrix<DATATYPE>): two rows.
Data == << [j \in 1..Dim |-> 1], [j \in 1..Dim |-> IF j = 1 THEN -1 ELSE 1] >>
\* Parameter sets accepted by reset (N <= D, S <= dataset size).
Params == { p \in [M : {MaxM}, L : 1..MaxL, D : {Dim}, N : 1..MaxN, S : {Len(Data)}] : p.N <= p.D }

\* ---------------------------------------------------------------- helpers
Min(a, b) == IF a < b THEN a ELSE b
Max(a, b) == IF a > b THEN a ELSE b
Abs(x) == IF x < 0 THEN -x ELSE x
Pow2(n) == IF n <= 0 THEN 1 ELSE 2 ^ n

RECURSIVE SumTo(_, _)
\* sum of f[1..n]
SumTo(f, n) == IF n = 0 THEN 0 ELSE f[n] + SumTo(f, n - 1)

RECURSIVE Concat(_)
\* concatenation of a sequence of sequences
Concat(ss) == IF ss = <<>> THEN <<>> ELSE Head(ss) \o Concat(Tail(ss))

RECURSIVE SortedSeq(_)
\* the elements of a finite set of integers in ascending order (std::map key order)
SortedSeq(S) ==
  IF S = {} THEN <<>>
  ELSE LET m == CHOOSE x \in S : \A y \in S : x <= y
       IN <<m>> \o SortedSeq(S \ {m})

EmptyMap == [c \in {} |-> <<>>]
\* std::map operator[] followed by push_back
PushBack(tab, code, id) ==
  IF code \in DOMAIN tab
  THEN [tab EXCEPT ![code] = Append(@, id)]
  ELSE [c \in (DOMAIN tab) \cup {code} |-> IF c = code THEN <<id>> ELSE tab[c]]
\* number of identifiers stored in one table
RECURSIVE CountIds(_, _)
CountIds(tab, codes) ==
  IF codes = {} THEN 0
  ELSE LET c == CHOOSE x \in codes : TRUE
       IN Len(tab[c]) + CountIds(tab, codes \ {c})
TableSize(tab) == CountIds(tab, DOMAIN tab)

\* ----------------------------------------------------------------- state
VARIABLES
  proc,       \* "running" | "aborted" (failed assert) | "crashed" (fault)
  param,      \* Parameter, or NoParam in a default-constructed object
  pcsAll,     \* per table: N rows of D floats (projection), <<>> if untrained
  omegasAll,  \* per table: N rows of N floats (rotation), <<>> if untrained
  rndArray,   \* per table: auxiliary random indices
  tables,     \* per table: map code -> posting list
  file,       \* words of the persisted file, or NoFile
  orig,       \* history: the index as it was when file was written
  call        \* log of the operation that just returned

vars == <<proc, param, pcsAll, omegasAll, rndArray, tables, file, orig, call>>

NoParam == [M |-> 0, L |-> 0, D |-> 0, N |-> 0, S |-> 0]
NoFile == <<-1>>
NoCall == [op |-> "none"]
Index == [param |-> param, pcsAll |-> pcsAll, omegasAll |-> omegasAll, tables |-> tables]
NoIndex == [param |-> NoParam, pcsAll |-> <<>>, omegasAll |-> <<>>, tables |-> <<>>]

\* ---------------------------------------------------------------- hasher
\* domin_pc[i] of getHashVal / getHashFloats: the vector times projection row i
DominPc(pcs, v) ==
  [i \in 1..Len(pcs) |-> SumTo([j \in 1..Len(pcs[i]) |-> v[j] * pcs[i][j]], Len(pcs[i]))]

\* product for bit i: the projected vector times rotation row i
Product(pcs, omega, v, i) ==
  LET pc == DominPc(pcs, v)
  IN SumTo([j \in 1..Len(omega[i]) |-> pc[j] * omega[i][j]], Len(omega[i]))

\* getHashFloats on given matrices
HashFloats(pcs, omega, v) == [i \in 1..Len(pcs) |-> Product(pcs, omega, v, i)]

\* quantization: 1 iff the float is >= 0
quantization(hashFloats) ==
  [i \in 1..Len(hashFloats) |-> IF hashFloats[i] >= 0 THEN 1 ELSE 0]

\* the sign test of getHashVal's loop body: 1 iff product > 0
HashValBit(product) == IF product > 0 THEN 1 ELSE 0

RECURSIVE HashValLoop(_, _, _, _)
\* getHashVal's loop over bits 1..i: hashVal *= 2; if (product > 0) hashVal += 1
HashValLoop(pcs, omega, v, i) ==
  IF i = 0 THEN 0
  ELSE 2 * HashValLoop(pcs, omega, v, i - 1) + HashValBit(Product(pcs, omega, v, i))

HashVal(pcs, omega, v) == HashValLoop(pcs, omega, v, Len(pcs))

\* the member functions, on table k (0-based) of the live index
getHashFloats(k, v) == HashFloats(pcsAll[k + 1], omegasAll[k + 1], v)
getHashBits(k, v) == quantization(getHashFloats(k, v))
getHashVal(k, v) == HashVal(pcsAll[k + 1], omegasAll[k + 1], v)

RECURSIVE PackBits(_, _)
\* most-significant-bit-first packing of bits[1..n]
PackBits(bits, n) == IF n = 0 THEN 0 ELSE 2 * PackBits(bits, n - 1) + bits[n]

\* unsignedToBools: N bits, filled from the last position; num < 2^N
unsignedToBools(num) ==
  [i \in 1..param.N |-> (num \div Pow2(param.N - i)) % 2]

\* ----------------------------------------------------------------- train
\* What train stores for table k (0-based) when its generator was seeded with
\* `seed`.  The eigen-decomposition and the SVDs are not computed: the result
\* is one of the orthonormal matrices with integer entries (a signed
\* permutation), selected by the seed and the table.
TrainedPcs(seed, k) ==
  [i \in 1..param.N |->
     [j \in 1..param.D |->
        IF j = ((i - 1 + seed + k) % param.D) + 1
        THEN (IF (seed + i) % 2 = 0 THEN 1 ELSE -1)
        ELSE 0]]
TrainedOmega(seed, k) ==
  [i \in 1..param.N |->
     [j \in 1..param.N |->
        IF j = ((i - 1 + seed) % param.N) + 1
        THEN (IF (k + i + seed) % 2 = 0 THEN -1 ELSE 1)
        ELSE 0]]
\* element i of the draws reset appends to rndArray[k]: usArray(rng) in 0..M-1
RndDraw(seed, k, i, M) == (seed * (k + 1) + i) % M

\* ------------------------------------------- multi-probe sequence generator
\* Probing (probing.h): built from a code's bits and its signed floats, pop()
\* yields the codes obtained by flipping a non-empty set of bits, in ascending
\* cost, the cost of a flip set being the sum of |float| over the flipped
\* bits; no code is returned twice.  Equal costs are ordered by code.
FlipSets(n) == (SUBSET (1..n)) \ {{}}
FlipCost(floats, F) == SumTo([i \in 1..Len(floats) |-> IF i \in F THEN Abs(floats[i]) ELSE 0], Len(floats))
FlippedCode(bits, F) ==
  PackBits([i \in 1..Len(bits) |-> IF i \in F THEN 1 - bits[i] ELSE bits[i]], Len(bits))
RECURSIVE ProbingOrder(_, _, _)
ProbingOrder(bits, floats, left) ==
  IF left = {} THEN <<>>
  ELSE LET Before(F, G) ==
             \/ FlipCost(floats, F) < FlipCost(floats, G)
             \/ /\ FlipCost(floats, F) = FlipCost(floats, G)
                /\ FlippedCode(bits, F) <= FlippedCode(bits, G)
           F0 == CHOOSE F \in left : \A G \in left : Before(F, G)
       IN <<FlippedCode(bits, F0)>> \o ProbingOrder(bits, floats, left \ {F0})
\* the successive results of pop() of Probing(bits, floats, false)
ProbingPops(bits, floats) == ProbingOrder(bits, floats, FlipSets(Len(bits)))

\* ----------------------------------------------------------------- codec
\* n elements starting at &row[0]; a read past the end of row yields g
RowRead(row, n, g) == [j \in 1..n |-> IF j <= Len(row) THEN row[j] ELSE g]
\* mat[j] of a vector of rows; past the end there is no row at all
MatRow(mat, j) == IF j <= Len(mat) THEN mat[j] ELSE <<>>

\* the bucket loop of save: code, length, identifiers, in map key order
BucketWords(tab) ==
  LET codes == SortedSeq(DOMAIN tab)
  IN Concat([n \in 1..Len(codes) |-> <<codes[n], Len(tab[codes[n]])>> \o tab[codes[n]]])

\* MatrixWords writing the whole projection matrix and then the whole
\* rotation matrix
MatrixWordsSplit(i, g) ==
  Concat([j \in 1..param.N |-> RowRead(MatRow(pcsAll[i], j), param.D, g)])
  \o Concat([j \in 1..param.N |-> RowRead(MatRow(omegasAll[i], j), param.N, g)])

\* the matrix loop of save: per bit j, row j of pcsAll then row j of omegasAll
MatrixWords(i, g) ==
  Concat([j \in 1..param.N |->
            RowRead(MatRow(pcsAll[i], j), param.D, g)
            \o RowRead(MatRow(omegasAll[i], j), param.N, g)])

\* what save writes for table i (1-based)
TableWords(i, g) ==
  RowRead(rndArray[i], param.N, g)
  \o <<Cardinality(DOMAIN tables[i])>>
  \o BucketWords(tables[i])
  \o MatrixWords(i, g)

\* the words save writes, reads past the end of a vector yielding g
SaveWords(g) ==
  <<param.M, param.L, param.D, param.N, param.S>>
  \o Concat([i \in 1..param.L |-> TableWords(i, g)])

\* every element save reads exists
SaveInBounds ==
  /\ Len(tables) >= param.L
  /\ \A i \in 1..param.L :
       /\ Len(rndArray[i]) >= param.N
       /\ Len(pcsAll[i]) >= param.N
       /\ Len(omegasAll[i]) >= param.N
       /\ \A j \in 1..param.N :
            Len(pcsAll[i][j]) >= param.D /\ Len(omegasAll[i][j]) >= param.N

\* std::vector::resize: keep the first n elements, pad with d
Resize(seq, n, d) == [i \in 1..n |-> IF i <= Len(seq) THEN seq[i] ELSE d]

RECURSIVE LoadBuckets(_, _, _, _)
\* the bucket loop of load: count buckets read from w at pos into tab
LoadBuckets(w, pos, count, tab) ==
  IF count = 0 THEN [tab |-> tab, pos |-> pos]
  ELSE LET target == w[pos]
           length == w[pos + 1]
           ids == SubSeq(w, pos + 2, pos + 1 + length)
           tab2 == [c \in (DOMAIN tab) \cup {target} |-> IF c = target THEN ids ELSE tab[c]]
       IN LoadBuckets(w, pos + 2 + length, count - 1, tab2)

\* LoadTable reading the whole projection matrix and then the whole rotation
\* matrix, instead of one row of each per bit
LoadTableSplit(w, pos, N, D, tab) ==
  LET count == w[pos + N]
      b == LoadBuckets(w, pos + N + 1, count, tab)
  IN [rnd |-> SubSeq(w, pos, pos + N - 1),
      tab |-> b.tab,
      pcs |-> [j \in 1..N |-> SubSeq(w, b.pos + (j - 1) * D, b.pos + j * D - 1)],
      omega |-> [j \in 1..N |-> SubSeq(w, b.pos + N * D + (j - 1) * N, b.pos + N * D + j * N - 1)],
      pos |-> b.pos + N * (D + N)]

\* one iteration of load's table loop, reading at pos, into the old table tab
LoadTable(w, pos, N, D, tab) ==
  LET count == w[pos + N]
      b == LoadBuckets(w, pos + N + 1, count, tab)
      at(j) == b.pos + (j - 1) * (D + N)
  IN [rnd |-> SubSeq(w, pos, pos + N - 1),
      tab |-> b.tab,
      pcs |-> [j \in 1..N |-> SubSeq(w, at(j), at(j) + D - 1)],
      omega |-> [j \in 1..N |-> SubSeq(w, at(j) + D, at(j) + D + N - 1)],
      pos |-> b.pos + N * (D + N)]

RECURSIVE LoadTables(_, _, _, _, _, _)
\* load's table loop from table i (1-based) on; old are the tables after resize
LoadTables(w, pos, i, p, old, acc) ==
  IF i > p.L THEN acc
  ELSE LET t == LoadTable(w, pos, p.N, p.D, old[i])
       IN LoadTables(w, t.pos, i + 1, p, old, Append(acc, t))

\* the object after load(file) on an object whose tables were old: the fields
\* read from the words w
Loaded(w, old) ==
  LET p == [M |-> w[1], L |-> w[2], D |-> w[3], N |-> w[4], S |-> w[5]]
      ts == LoadTables(w, 6, 1, p, Resize(old, p.L, EmptyMap), <<>>)
  IN [param |-> p,
      rndArray |-> [i \in 1..p.L |-> ts[i].rnd],
      tables |-> [i \in 1..p.L |-> ts[i].tab],
      pcsAll |-> [i \in 1..p.L |-> ts[i].pcs],
      omegasAll |-> [i \in 1..p.L |-> ts[i].omega]]

\* ------------------------------------------------------------- lifecycle
Init ==
  /\ proc = "running"
  /\ param = NoParam
  /\ pcsAll = <<>>
  /\ omegasAll = <<>>
  /\ rndArray = <<>>
  /\ tables = <<>>
  /\ file = NoFile
  /\ orig = NoIndex
  /\ call = NoCall

\* the object is ready for the next call
Ready == proc = "running" /\ call.op = "none"
\* reset or load has set the parameters; before that they are uninitialised
Inited == param # NoParam
\* The index is under construction: no persisted file exists.  (Bound on the
\* interleavings: reset, train, insert, hash and rehash are not run while a
\* file exists; Unlink removes the file.)
Building == Ready /\ Inited /\ file = NoFile

\* laItqLsh(): a default-constructed object (in a new process, if the last
\* one was aborted); the file system keeps the file
New ==
  /\ proc' = "running"
  /\ param' = NoParam
  /\ pcsAll' = <<>>
  /\ omegasAll' = <<>>
  /\ rndArray' = <<>>
  /\ tables' = <<>>
  /\ call' = NoCall
  /\ UNCHANGED <<file, orig>>

\* the call has returned and its log is dropped
Return ==
  /\ proc = "running"
  /\ call.op \notin {"none", "sampling"}
  /\ call' = NoCall
  /\ UNCHANGED <<proc, param, pcsAll, omegasAll, rndArray, tables, file, orig>>

\* the persisted file is removed
Unlink ==
  /\ Ready
  /\ file # NoFile
  /\ file' = NoFile
  /\ orig' = NoIndex
  /\ UNCHANGED <<proc, param, pcsAll, omegasAll, rndArray, tables, call>>

\* reset(param_), on whatever the object holds
ResetBody(p, seed) ==
  /\ param' = p
  /\ tables' = Resize(tables, p.L, EmptyMap)
  /\ rndArray' = [i \in 1..p.L |->
                    Resize(rndArray, p.L, <<>>)[i]
                    \o [n \in 1..p.N |-> RndDraw(seed, i - 1, n, p.M)]]
  /\ pcsAll' = Resize(pcsAll, p.L, <<>>)
  /\ omegasAll' = Resize(omegasAll, p.L, <<>>)
  /\ call' = [op |-> "reset", p |-> p]
  /\ UNCHANGED <<proc, file, orig>>

\* laItqLsh(param_): reset on a default-constructed object.  Section 3 of the
\* specification makes the parameter set immutable once construction begins.
Reset(p, seed) ==
  /\ Ready
  /\ ~Inited
  /\ file = NoFile
  /\ ResetBody(p, seed)

\* reset(param_) called again on an object that already has parameters
ReReset(p, seed) ==
  /\ Building
  /\ \A i \in 1..Len(rndArray) : Len(rndArray[i]) + p.N <= MaxAux
  /\ ResetBody(p, seed)

\* train(data): every table's matrices are replaced by the trained ones
Train(seed) ==
  /\ Building
  /\ pcsAll' = [k \in 1..param.L |-> TrainedPcs(seed, k - 1)]
  /\ omegasAll' = [k \in 1..param.L |-> TrainedOmega(seed, k - 1)]
  /\ call' = [op |-> "train"]
  /\ UNCHANGED <<proc, param, rndArray, tables, file, orig>>

\* ---------------------------------------------------------- bucket index
\* the loop of insert on the tables tabs (tables[k] exists for every k < L)
InsertInto(tabs, key, v) ==
  [i \in 1..Len(tabs) |->
     IF i <= param.L THEN PushBack(tabs[i], getHashVal(i - 1, v), key) ELSE tabs[i]]

RECURSIVE HashLoop(_, _)
\* the loop of hash from row i (1-based) on: insert(i, data[i]) with 0-based i
HashLoop(i, tabs) ==
  IF i > Len(Data) THEN tabs
  ELSE HashLoop(i + 1, InsertInto(tabs, i - 1, Data[i]))

\* no table grows beyond MaxPost identifiers by n more
Room(n) == \A i \in 1..Len(tables) : TableSize(tables[i]) + n <= MaxPost

\* insert(key, domin); tables[k] with k >= tables.size() is out of bounds
Insert(key, v) ==
  /\ Building
  /\ Room(1)
  /\ IF Len(tables) >= param.L
     THEN /\ tables' = InsertInto(tables, key, v)
          /\ call' = [op |-> "insert", key |-> key, v |-> v]
          /\ proc' = proc
     ELSE /\ proc' = "crashed"
          /\ call' = [op |-> "insert", key |-> key, v |-> v]
          /\ tables' = tables
  /\ UNCHANGED <<param, pcsAll, omegasAll, rndArray, file, orig>>

\* hash(data)
Hash ==
  /\ Building
  /\ Room(Len(Data))
  /\ IF Len(tables) >= param.L
     THEN /\ tables' = HashLoop(1, tables)
          /\ call' = [op |-> "hash"]
          /\ proc' = proc
     ELSE /\ proc' = "crashed"
          /\ call' = [op |-> "hash"]
          /\ tables' = tables
  /\ UNCHANGED <<param, pcsAll, omegasAll, rndArray, file, orig>>

RECURSIVE RehashLoopExact(_, _, _)
\* RehashLoop filing every row under its exact code in every table, without
\* consulting the generator
RehashLoopExact(i, T, tabs) ==
  IF i > Len(Data) THEN tabs
  ELSE LET hashVal == getHashVal(0, Data[i])
       IN RehashLoopExact(i + 1, T, [k \in 1..T |-> PushBack(tabs[k], hashVal, i - 1)])

RECURSIVE RehashLoop(_, _, _)
\* the loop of rehash from row i (1-based) on, over T tables
RehashLoop(i, T, tabs) ==
  IF i > Len(Data) THEN tabs
  ELSE LET hashVal == getHashVal(0, Data[i])
           pops == ProbingPops(getHashBits(0, Data[i]), getHashFloats(0, Data[i]))
       IN RehashLoop(i + 1, T,
            [k \in 1..T |-> PushBack(tabs[k], IF k = 1 THEN hashVal ELSE pops[k - 1], i - 1)])

\* Rehashed without the early return for numTables == 1
RehashedAlways(T) == RehashLoop(1, T, [k \in 1..T |-> EmptyMap])

\* the tables after rehash(data, numTables)
Rehashed(T) ==
  IF T = 1 THEN tables
  ELSE RehashLoop(1, T, [k \in 1..T |-> EmptyMap])

\* rehash(data, numTables); the generator holds 2^bits - 1 codes, and at most
\* that many are popped per row
Rehash(T) ==
  /\ Building
  /\ T <= Pow2(Len(pcsAll[1]))
  /\ tables' = Rehashed(T)
  /\ call' = [op |-> "rehash", T |-> T]
  /\ UNCHANGED <<proc, param, pcsAll, omegasAll, rndArray, file, orig>>

\* ----------------------------------------------------------- save, load
\* save(file) when every element it reads exists
SaveOk ==
  /\ Ready /\ Inited
  /\ SaveInBounds
  /\ file' = SaveWords(0)
  /\ orig' = Index
  /\ call' = [op |-> "save"]
  /\ UNCHANGED <<proc, param, pcsAll, omegasAll, rndArray, tables>>

\* save(file) reading past the end of a vector (undefined behaviour): the
\* reads return some value and the file is written
SaveGarbage(g) ==
  /\ Ready /\ Inited
  /\ ~SaveInBounds
  /\ Len(tables) >= param.L
  /\ file' = SaveWords(g)
  /\ orig' = Index
  /\ call' = [op |-> "save"]
  /\ UNCHANGED <<proc, param, pcsAll, omegasAll, rndArray, tables>>

\* save(file) reading past the end of a vector (undefined behaviour): the
\* read faults, the process dies and the file it created stays empty
SaveFault ==
  /\ Ready /\ Inited
  /\ ~SaveInBounds
  /\ proc' = "crashed"
  /\ file' = <<>>
  /\ orig' = Index
  /\ call' = [op |-> "save"]
  /\ UNCHANGED <<param, pcsAll, omegasAll, rndArray, tables>>

\* load(file) into a default-constructed object, from a complete file
Load ==
  /\ Ready
  /\ ~Inited
  /\ file # NoFile /\ file # <<>>
  /\ LET o == Loaded(file, tables)
     IN /\ param' = o.param
        /\ rndArray' = o.rndArray
        /\ tables' = o.tables
        /\ pcsAll' = o.pcsAll
        /\ omegasAll' = o.omegasAll
  /\ call' = [op |-> "load"]
  /\ UNCHANGED <<proc, file, orig>>

\* --------------------------------------------------------------- queries
\* The log of a query call: its arguments (mb and flag where the strategy has
\* them), whether it returned ("ok") or failed an assert ("abort"), the
\* probe calls it made as <<table, bucketId>> in order, the distance class of
\* each probe (queryRanking), the normalisation argument the generator was
\* built with (queryByLoss) and the identifiers fed to the scanner.
Scanned(probes) ==
  Concat([n \in 1..Len(probes) |->
            LET tab == tables[probes[n][1] + 1]
            IN IF probes[n][2] \in DOMAIN tab THEN tab[probes[n][2]] ELSE <<>>])
QCall(op, v, mb, flag, status, probes, rows, norm) ==
  [op |-> op, v |-> v, mb |-> mb, flag |-> flag, status |-> status,
   probes |-> probes, rows |-> rows, norm |-> norm, scanned |-> Scanned(probes)]
\* std::map operator[]: the map after tab[code] was evaluated; an absent key
\* is inserted with an empty posting list
MapIndex(tab, code) ==
  IF code \in DOMAIN tab THEN tab
  ELSE [c \in (DOMAIN tab) \cup {code} |-> IF c = code THEN <<>> ELSE tab[c]]

\* ProbeTable indexing the table without looking the code up first
ProbeTableUnguarded(tab, bucketId) == MapIndex(tab, bucketId)

\* the table after probe(t, bucketId, scanner): tables[t][bucketId] is
\* evaluated only if find(bucketId) found the code
ProbeTable(tab, bucketId) ==
  IF bucketId \in DOMAIN tab THEN MapIndex(tab, bucketId) ELSE tab

RECURSIVE ProbeAll(_, _)
\* the tables after the probe calls <<table, bucketId>> of a query, in order
ProbeAll(tabs, probes) ==
  IF probes = <<>> THEN tabs
  ELSE ProbeAll([tabs EXCEPT ![Head(probes)[1] + 1] = ProbeTable(@, Head(probes)[2])],
                Tail(probes))

QueryOps == {"query", "queryRanking", "queryRankingByLoss", "queryByLoss", "queryRehash"}
DirectOps == {"query", "queryRanking", "queryRankingByLoss", "queryByLoss"}

\* a query call returns
Finish(c) ==
  /\ call' = c
  /\ proc' = proc
  /\ tables' = ProbeAll(tables, c.probes)
  /\ UNCHANGED <<param, pcsAll, omegasAll, rndArray, file, orig>>

\* a failed assert: the process aborts before the call returns
Abort(op) ==
  /\ call' = [op |-> op, status |-> "abort", probes |-> <<>>]
  /\ proc' = "aborted"
  /\ UNCHANGED <<param, pcsAll, omegasAll, rndArray, tables, file, orig>>

\* assert(param.L == 1), in every strategy and in probe
SingleTable == param.L = 1

\* query(domin, scanner)
Query(v) ==
  /\ Ready /\ Inited
  /\ IF SingleTable
     THEN Finish(QCall("query", v, 0, FALSE, "ok", << <<0, getHashVal(0, v)>> >>, <<>>, FALSE))
     ELSE Abort("query")

RECURSIVE Xor(_, _)
Xor(a, b) == IF a = 0 /\ b = 0 THEN 0 ELSE ((a + b) % 2) + 2 * Xor(a \div 2, b \div 2)
RECURSIVE PopCount(_)
\* the loop while (xorVal != 0) { hamDist++; xorVal &= xorVal - 1; }
PopCount(x) == IF x = 0 THEN 0 ELSE (x % 2) + PopCount(x \div 2)
HamDist(a, b) == PopCount(Xor(a, b))

\* DstToBks filling each class in descending key order
DstToBksDescending(hashVal, tab) ==
  LET codes == SortedSeq(DOMAIN tab)
      desc == [n \in 1..Len(codes) |-> codes[Len(codes) + 1 - n]]
  IN [r \in 1..(param.N + 1) |->
        SelectSeq(desc, LAMBDA c : HamDist(hashVal, c) = r - 1)]

\* dstToBks of queryRanking: class d (0..N, at index d + 1) holds the bucket
\* codes at Hamming distance d from hashVal, in map key order
DstToBks(hashVal, tab) ==
  LET codes == SortedSeq(DOMAIN tab)
  IN [r \in 1..(param.N + 1) |->
        SelectSeq(codes, LAMBDA c : HamDist(hashVal, c) = r - 1)]

RECURSIVE SkipRows(_, _, _)
\* while (proCol == dstToBks[proRow].size()) { proCol = 0; proRow++; }
SkipRows(dst, proRow, proCol) ==
  IF proCol = Len(dst[proRow + 1]) THEN SkipRows(dst, proRow + 1, 0)
  ELSE <<proRow, proCol>>

RECURSIVE RankingLoop(_, _, _, _, _, _, _)
\* the probe loop of queryRanking from bId on; acc holds <<bucket, class>>
RankingLoop(dst, size, mb, bId, proRow, proCol, acc) ==
  IF bId < size /\ bId < mb
  THEN LET at == SkipRows(dst, proRow, proCol)
       IN RankingLoop(dst, size, mb, bId + 1, at[1], at[2] + 1,
                      Append(acc, <<dst[at[1] + 1][at[2] + 1], at[1]>>))
  ELSE acc

\* queryRanking(domin, scanner, maxNumBuckets)
QueryRanking(v, mb) ==
  /\ Ready /\ Inited
  /\ IF ~SingleTable
     THEN Abort("queryRanking")
     ELSE LET hashVal == getHashVal(0, v)
              tab == tables[1]
          IN IF \E c \in DOMAIN tab : HamDist(hashVal, c) >= param.N + 1
             THEN Abort("queryRanking")
             ELSE LET got == RankingLoop(DstToBks(hashVal, tab), Cardinality(DOMAIN tab),
                                         mb, 0, 0, 0, <<>>)
                  IN Finish(QCall("queryRanking", v, mb, FALSE, "ok",
                                  [n \in 1..Len(got) |-> <<0, got[n][1]>>],
                                  [n \in 1..Len(got) |-> got[n][2]], FALSE))

\* BucketLoss counting the differing bits, without their weights
BucketLossUnweighted(queryBits, queryFloats, code) ==
  LET bucketBits == unsignedToBools(code)
  IN SumTo([b \in 1..Len(queryBits) |-> IF queryBits[b] # bucketBits[b] THEN 1 ELSE 0],
           Len(queryBits))

\* dst of queryRankingByLoss for one bucket: the sum of fabs(queryFloats[bIdx])
\* over the bits where queryBits and the bucket's bits differ
BucketLoss(queryBits, queryFloats, code) ==
  LET bucketBits == unsignedToBools(code)
  IN SumTo([b \in 1..Len(queryBits) |->
              IF queryBits[b] # bucketBits[b] THEN Abs(queryFloats[b]) ELSE 0],
           Len(queryBits))

\* the orders std::sort can leave the buckets in: ascending dst, buckets of
\* equal dst in any order
SortedByLoss(queryBits, queryFloats, codes) ==
  { o \in [1..Cardinality(codes) -> codes] :
      /\ \A i, j \in DOMAIN o : i # j => o[i] # o[j]
      /\ \A i, j \in DOMAIN o :
           i < j => ~(BucketLoss(queryBits, queryFloats, o[j])
                        < BucketLoss(queryBits, queryFloats, o[i])) }

RECURSIVE LossLoop(_, _, _, _)
\* for (bId = 0; bId < dstToBks.size() && bId < maxNumBuckets; ++bId)
LossLoop(order, mb, bId, acc) ==
  IF bId < Len(order) /\ bId < mb
  THEN LossLoop(order, mb, bId + 1, Append(acc, <<0, order[bId + 1]>>))
  ELSE acc

\* queryRankingByLoss(domin, scanner, maxNumBuckets); unsignedToBools writes
\* out of bounds for a code of more than N bits
QueryRankingByLoss(v, mb) ==
  /\ Ready /\ Inited
  /\ IF ~SingleTable
     THEN Abort("queryRankingByLoss")
     ELSE IF \E c \in DOMAIN tables[1] : c >= Pow2(param.N)
     THEN /\ proc' = "crashed"
          /\ call' = [op |-> "queryRankingByLoss", status |-> "fault", probes |-> <<>>]
          /\ UNCHANGED <<param, pcsAll, omegasAll, rndArray, tables, file, orig>>
     ELSE \E order \in SortedByLoss(getHashBits(0, v), getHashFloats(0, v), DOMAIN tables[1]) :
            Finish(QCall("queryRankingByLoss", v, mb, FALSE, "ok",
                         LossLoop(order, mb, 0, <<>>), <<>>, FALSE))

\* the third argument of Probing's constructor in queryByLoss
ProbingNormalize(withMeanAndSTD) == FALSE

RECURSIVE ByLossLoop(_, _, _, _)
\* for (numBk = 1; numBk < maxNumBuckets; ++numBk) probe(0, pro.pop())
ByLossLoop(pops, mb, numBk, acc) ==
  IF numBk < mb
  THEN ByLossLoop(pops, mb, numBk + 1, Append(acc, <<0, pops[numBk]>>))
  ELSE acc

\* queryByLoss(domin, scanner, maxNumBuckets, withMeanAndSTD); at most the
\* 2^N - 1 codes the generator holds are popped
QueryByLoss(v, mb, flag) ==
  /\ Ready /\ Inited
  /\ mb <= Pow2(Len(pcsAll[1]))
  /\ IF ~SingleTable \/ Len(getHashBits(0, v)) # param.N
     THEN Abort("queryByLoss")
     ELSE LET hashVal == getHashVal(0, v)
              hashBits == getHashBits(0, v)
              hashFloats == getHashFloats(0, v)
          IN Finish(QCall("queryByLoss", v, mb, flag, "ok",
                          ByLossLoop(ProbingPops(hashBits, hashFloats), mb, 1, << <<0, hashVal>> >>),
                          <<>>, ProbingNormalize(flag)))

\* queryRehash(domin, scanner)
QueryRehash(v) ==
  /\ Ready /\ Inited
  /\ IF SingleTable
     THEN Finish(QCall("queryRehash", v, 0, FALSE, "ok",
                       [k \in 1..Len(tables) |-> <<k - 1, getHashVal(0, v)>>], <<>>, FALSE))
     ELSE Abort("queryRehash")

\* ------------------------------------------------------- specifications
Budgets == -1..MaxB

Next ==
  \/ New
  \/ Return
  \/ Unlink
  \/ \E p \in Params, seed \in Seeds : Reset(p, seed)
  \/ \E seed \in Seeds : Train(seed)
  \/ \E key \in 0..MaxKey, v \in DataVecs : Insert(key, v)
  \/ Hash
  \/ \E T \in 1..MaxT : Rehash(T)
  \/ SaveOk
  \/ \E g \in Garbage : SaveGarbage(g)
  \/ SaveFault
  \/ Load
  \/ \E v \in QueryVecs : Query(v)
  \/ \E v \in QueryVecs, mb \in Budgets : QueryRanking(v, mb)
  \/ \E v \in QueryVecs, mb \in Budgets : QueryRankingByLoss(v, mb)
  \/ \E v \in QueryVecs, mb \in Budgets, flag \in BOOLEAN : QueryByLoss(v, mb, flag)
  \/ \E v \in QueryVecs : QueryRehash(v)

Spec == Init /\ [][Next]_vars

\* ------------------------------------------- train, one draw at a time
\* Parameter sets whose S need not fit the dataset.
SampleParams == { p \in [M : {MaxM}, L : 1..MaxL, D : {Dim}, N : 1..MaxN, S : 1..MaxS] : p.N <= p.D }

\* the body of the sampling loop without the std::find test
SamplePushAlways(seqs, target) == Append(seqs, target)

\* if (std::find(seqs.begin(), seqs.end(), target) == seqs.end()) seqs.push_back(target)
SamplePush(seqs, target) ==
  IF \A n \in 1..Len(seqs) : seqs[n] # target THEN Append(seqs, target) ELSE seqs

\* train is inside the sampling loop of table call.k
Sampling == proc = "running" /\ call.op = "sampling"

\* train(data) is entered with a dataset of `rows` rows; its generator is
\* seeded and the loop over the tables starts at k = 0 with an empty seqs
TrainBegin(rows, seed) ==
  /\ Building
  /\ call' = [op |-> "sampling", rows |-> rows, seed |-> seed, k |-> 0,
               seqs |-> <<>>, samples |-> <<>>]
  /\ UNCHANGED <<proc, param, pcsAll, omegasAll, rndArray, tables, file, orig>>

\* one iteration of while (seqs.size() != param.S): target = usBits(rng), a
\* value in 0..data.getSize()-1
SampleDraw(target) ==
  /\ Sampling
  /\ Len(call.seqs) # param.S
  /\ target \in 0..(call.rows - 1)
  /\ call' = [call EXCEPT !.seqs = SamplePush(@, target)]
  /\ UNCHANGED <<proc, param, pcsAll, omegasAll, rndArray, tables, file, orig>>

\* the sampling loop of table k has ended: seqs is sorted, the table's
\* matrices are computed and stored, and train goes on to the next table
\* or returns
TableTrained ==
  /\ Sampling
  /\ Len(call.seqs) = param.S
  /\ pcsAll' = [pcsAll EXCEPT ![call.k + 1] = TrainedPcs(call.seed, call.k)]
  /\ omegasAll' = [omegasAll EXCEPT ![call.k + 1] = TrainedOmega(call.seed, call.k)]
  /\ LET sorted == SortedSeq({ call.seqs[n] : n \in 1..Len(call.seqs) })
     IN call' = IF call.k + 1 = param.L
                THEN [op |-> "train", rows |-> call.rows,
                      samples |-> Append(call.samples, sorted)]
                ELSE [call EXCEPT !.k = @ + 1, !.seqs = <<>>,
                                  !.samples = Append(@, sorted)]
  /\ UNCHANGED <<proc, param, rndArray, tables, file, orig>>

NextSample ==
  \/ Return
  \/ \E p \in SampleParams, seed \in Seeds : Reset(p, seed)
  \/ \E rows \in 1..MaxRows, seed \in Seeds : TrainBegin(rows, seed)
  \/ \E target \in 0..(MaxRows - 1) : SampleDraw(target)
  \/ TableTrained

\* Fair random draws: a draw that changes seqs (a target not drawn yet) is
\* not postponed forever; the code after the loop runs.
SpecSample ==
  /\ Init
  /\ [][NextSample]_vars
  /\ WF_vars(\E target \in 0..(MaxRows - 1) : SampleDraw(target))
  /\ WF_vars(TableTrained)

\* The same object when reset is also called on an index in use.
NextReuse ==
  \/ New
  \/ Return
  \/ \E p \in Params, seed \in Seeds : Reset(p, seed)
  \/ \E p \in Params, seed \in Seeds : ReReset(p, seed)
  \/ \E seed \in Seeds : Train(seed)
  \/ \E key \in 0..MaxKey, v \in DataVecs : Insert(key, v)
  \/ Hash
  \/ \E T \in 1..MaxT : Rehash(T)

SpecReuse == Init /\ [][NextReuse]_vars

\* ------------------------------------------------------------- claims
\* every table of the index ix holds N rows of D floats and N rows of N floats
Trained(ix) ==
  /\ Len(ix.pcsAll) = ix.param.L
  /\ Len(ix.omegasAll) = ix.param.L
  /\ \A i \in 1..ix.param.L :
       /\ Len(ix.pcsAll[i]) = ix.param.N
       /\ Len(ix.omegasAll[i]) = ix.param.N
       /\ \A j \in 1..ix.param.N :
            Len(ix.pcsAll[i][j]) = ix.param.D /\ Len(ix.omegasAll[i][j]) = ix.param.N

\* the loaded index equals the saved one field by field, and saving it again
\* writes the same words
SameAsSaved ==
  /\ param = orig.param
  /\ tables = orig.tables
  /\ pcsAll = orig.pcsAll
  /\ omegasAll = orig.omegasAll
  /\ SaveInBounds
  /\ SaveWords(0) = file

\* C1 (as amended): for an index with exactly L tables, all of them trained,
\* saving it and loading the file into a new object yields the same
\* parameters M, L, D, N, S, the same buckets (codes, posting lists and their
\* order) and the same projection and rotation matrices, and saving the
\* loaded index again writes the same words.
C1_RoundTripTrained ==
  (call.op = "load" /\ Trained(orig) /\ Len(orig.tables) = orig.param.L) => SameAsSaved

\* C1 witness: a trained two-bit index with two buckets in a table has been
\* saved and loaded again
C1_Witness ==
  /\ call.op = "load"
  /\ Trained(orig)
  /\ orig.param.N = 2
  /\ \E i \in 1..Len(tables) : Cardinality(DOMAIN tables[i]) = 2

\* C1 (as claimed): the round trip is exact for every index that has exactly
\* L tables, trained or not.
C1_RoundTripAny ==
  (call.op = "load" /\ Len(orig.tables) = orig.param.L) => SameAsSaved

\* the vectors the hasher is applied to
AllVecs == QueryVecs \cup DataVecs

\* C2: for every table k and every vector v, getHashVal(k, v) is the
\* most-significant-bit-first packing of getHashBits(k, v); in particular a
\* projection of exactly 0 gives bit 1 in the bits and in the integer code.
C2_CodeIsPackedBits ==
  Inited =>
    \A k \in 0..(param.L - 1) : \A v \in AllVecs :
      getHashVal(k, v) = PackBits(getHashBits(k, v), Len(getHashBits(k, v)))

\* the tables a query call probed
TablesProbed == { call.probes[n][1] : n \in 1..Len(call.probes) }

\* C3: with more than one table in the live index every direct strategy fails
\* its precondition check before any probe; a query that returns has probed
\* table 0 alone (direct strategies) or every table of the rehash (queryRehash).
C3_MixingRejected ==
  /\ (call.op \in DirectOps /\ Len(tables) > 1) =>
       (call.status = "abort" /\ call.probes = <<>>)
  /\ (call.op \in DirectOps /\ call.status = "ok") => TablesProbed \subseteq {0}
  /\ (call.op = "queryRehash" /\ call.status = "ok") =>
       (Len(call.probes) = Len(tables) /\ TablesProbed = 0..(Len(tables) - 1))

\* C4: queryRanking, queryRankingByLoss and queryByLoss make at most
\* max(maxBuckets, 0) probes, whatever maxBuckets and the index are.
C4_BudgetIsHardLimit ==
  (call.op \in {"queryRanking", "queryRankingByLoss", "queryByLoss"} /\ call.status = "ok") =>
    Len(call.probes) <= Max(call.mb, 0)

\* bit i (1 = most significant of n) of a code
BitOf(code, i, n) == (code \div Pow2(n - i)) % 2
\* number of bit positions at which two n-bit codes differ
Hamming(a, b, n) == Cardinality({ i \in 1..n : BitOf(a, i, n) # BitOf(b, i, n) })
\* the bucket code of the n-th probe of the logged call
Probed(n) == call.probes[n][2]
\* the populated buckets of table 0
Populated == DOMAIN tables[1]
\* no bucket is probed twice and every probed bucket is populated
ProbesDistinctPopulated ==
  /\ \A n \in 1..Len(call.probes) : Probed(n) \in Populated
  /\ \A m, n \in 1..Len(call.probes) : m # n => Probed(m) # Probed(n)

\* the order queryRanking probes in, whatever the budget: by Hamming distance
\* to the query code, ascending code within a distance, no bucket twice, no
\* distance class beyond N
RankingOrder ==
  LET q == getHashVal(0, call.v)
  IN /\ ProbesDistinctPopulated
     /\ \A m, n \in 1..Len(call.probes) :
          m < n => /\ Hamming(q, Probed(m), param.N) <= Hamming(q, Probed(n), param.N)
                   /\ Hamming(q, Probed(m), param.N) = Hamming(q, Probed(n), param.N)
                        => Probed(m) < Probed(n)
     /\ \A n \in 1..Len(call.rows) :
          call.rows[n] \in 0..param.N /\ call.rows[n] = Hamming(q, Probed(n), param.N)

\* C5 (as amended): queryRanking probes buckets in non-decreasing Hamming
\* distance to the query code, buckets of equal distance in ascending code
\* order, none twice, never past distance class N, and stops after exactly
\* min(max(maxBuckets, 0), number of populated buckets) probes.
C5_HammingRanking ==
  (call.op = "queryRanking" /\ call.status = "ok") =>
    /\ RankingOrder
    /\ Len(call.probes) = Min(Max(call.mb, 0), Cardinality(Populated))

\* C5 witness: on a two-bit index with two populated buckets, queryRanking
\* has probed both, and they lie at the same Hamming distance from the query
\* code (the tie is broken by the table's enumeration order).
C5_Witness ==
  /\ call.op = "queryRanking" /\ call.status = "ok"
  /\ param.N = 2
  /\ Len(call.probes) = 2
  /\ Cardinality(Populated) = 2
  /\ Hamming(getHashVal(0, call.v), Probed(1), 2) = Hamming(getHashVal(0, call.v), Probed(2), 2)

\* C5 (as claimed): the same, stopping after exactly
\* min(maxBuckets, number of populated buckets) probes.
C5_HammingRankingAsClaimed ==
  (call.op = "queryRanking" /\ call.status = "ok") =>
    /\ RankingOrder
    /\ Len(call.probes) = Min(call.mb, Cardinality(Populated))

\* loss of a bucket for the logged query: the sum, over the bit positions at
\* which the bucket's code differs from the query's bits, of the absolute
\* value of the query's signed projection at that bit
Loss(code) ==
  LET qb == getHashBits(0, call.v)
      qf == getHashFloats(0, call.v)
      D == { i \in 1..Len(qb) : BitOf(code, i, param.N) # qb[i] }
  IN SumTo([i \in 1..Len(qb) |-> IF i \in D THEN Abs(qf[i]) ELSE 0], Len(qb))

\* the probes are distinct populated buckets in non-decreasing loss, and no
\* populated bucket left unprobed has a smaller loss than a probed one
LossOrder ==
  /\ ProbesDistinctPopulated
  /\ \A m, n \in 1..Len(call.probes) : m < n => Loss(Probed(m)) <= Loss(Probed(n))
  /\ \A n \in 1..Len(call.probes) :
       \A c \in Populated \ { Probed(m) : m \in 1..Len(call.probes) } :
         Loss(Probed(n)) <= Loss(c)

\* C6 (as amended): queryRankingByLoss probes the
\* min(max(maxBuckets, 0), number of populated buckets) populated buckets of
\* smallest loss, in non-decreasing loss order.
C6_LossRanking ==
  (call.op = "queryRankingByLoss" /\ call.status = "ok") =>
    /\ LossOrder
    /\ Len(call.probes) = Min(Max(call.mb, 0), Cardinality(Populated))

\* C6 witness: with two populated buckets of different loss at the same
\* Hamming distance from the query, the one of smaller loss alone was probed
C6_Witness ==
  /\ call.op = "queryRankingByLoss" /\ call.status = "ok"
  /\ param.N = 2 /\ Len(pcsAll[1]) = 2
  /\ Len(call.probes) = 1
  /\ \E c \in Populated :
       /\ Loss(Probed(1)) < Loss(c)
       /\ Hamming(PackBits(getHashBits(0, call.v), 2), c, 2)
            = Hamming(PackBits(getHashBits(0, call.v), 2), Probed(1), 2)

\* C6 (as claimed): the same with min(maxBuckets, number of populated buckets).
C6_LossRankingAsClaimed ==
  (call.op = "queryRankingByLoss" /\ call.status = "ok") =>
    /\ LossOrder
    /\ Len(call.probes) = Min(call.mb, Cardinality(Populated))

\* C7: queryByLoss builds the generator with normalisation enabled exactly
\* when withMeanAndSTD is true; it probes the query's own bucket first and
\* then the generator's successive pops.
C7_FlagSelectsNormalization ==
  (call.op = "queryByLoss" /\ call.status = "ok") =>
    /\ call.norm = call.flag
    /\ Len(call.probes) >= 1
    /\ call.probes[1] = <<0, getHashVal(0, call.v)>>
    /\ \A n \in 2..Len(call.probes) :
         call.probes[n] = <<0, ProbingPops(getHashBits(0, call.v), getHashFloats(0, call.v))[n - 1]>>

\* C8: rehash(data, T) with T > 1 leaves exactly T tables, however many there
\* were; rehash(data, 1) on a single-table index leaves its table unchanged.
C8_RehashFanOut ==
  [][call'.op = "rehash" =>
       /\ call'.T > 1 => Len(tables') = call'.T
       /\ (call'.T = 1 /\ Len(tables) = 1) => tables' = tables]_vars

\* C8 witness: a single-table index holding a bucket was rehashed to two
\* tables
C8_Witness ==
  /\ call.op = "rehash" /\ call.T = 2
  /\ param.L = 1
  /\ Len(tables) = 2

\* C9: the file save writes holds the projection and rotation matrices of all
\* L tables and the buckets of every table of the index, those made by rehash
\* included.
C9_SaveHoldsEveryTable ==
  (call.op = "save" /\ proc = "running" /\ SaveInBounds) =>
    LET o == Loaded(file, <<>>)
    IN /\ \A i \in 1..param.L :
            o.pcsAll[i] = pcsAll[i] /\ o.omegasAll[i] = omegasAll[i]
       /\ \A i \in 1..Len(tables) : i <= Len(o.tables) /\ o.tables[i] = tables[i]

\* C10: after reset(p) the index has exactly p.L tables, all without buckets,
\* p.L projection and rotation slots holding no matrix, and p.L auxiliary
\* arrays holding only the N values drawn by this reset.
C10_ResetDiscardsState ==
  call.op = "reset" =>
    /\ param = call.p
    /\ Len(tables) = param.L /\ \A i \in 1..Len(tables) : tables[i] = EmptyMap
    /\ Len(pcsAll) = param.L /\ \A i \in 1..Len(pcsAll) : pcsAll[i] = <<>>
    /\ Len(omegasAll) = param.L /\ \A i \in 1..Len(omegasAll) : omegasAll[i] = <<>>
    /\ Len(rndArray) = param.L /\ \A i \in 1..Len(rndArray) : Len(rndArray[i]) = param.N

\* C11: every bucket code stored in any table of an index built by reset,
\* train, insert, hash and rehash fits in N bits: it is at most 2^N - 1.
C11_CodeWidth ==
  \A i \in 1..Len(tables) : \A c \in DOMAIN tables[i] : c <= Pow2(param.N) - 1

\* C12: every query operation, whether it returns or fails its precondition
\* check and whether or not the codes it probes exist, leaves the tables
\* (their number, every bucket key, every posting list), the learned matrices
\* and the parameters unchanged; probing an absent code creates no bucket.
C12_QueriesReadOnly ==
  [][call'.op \in QueryOps =>
       /\ tables' = tables
       /\ pcsAll' = pcsAll /\ omegasAll' = omegasAll
       /\ param' = param /\ rndArray' = rndArray]_vars

\* C12 witness: a query that returned has probed a code no bucket exists for,
\* in an index holding at least one bucket
C12_Witness ==
  /\ call.op \in QueryOps /\ call.status = "ok"
  /\ \E i \in 1..Len(tables) : DOMAIN tables[i] # {}
  /\ \E n \in 1..Len(call.probes) :
       call.probes[n][2] \notin DOMAIN tables[call.probes[n][1] + 1]

\* Positions (1-based word offsets) of the parts of the file of the live index.
\* words taken by the buckets of a table: code and length per bucket, and its ids
BucketsLen(tab, codes) == 2 * Cardinality(codes) + CountIds(tab, codes)
\* words taken by table i: N auxiliary values, the bucket count, the buckets,
\* an N x D and an N x N matrix
SectionLen(i) ==
  param.N + 1 + BucketsLen(tables[i], DOMAIN tables[i]) + param.N * (param.D + param.N)
RECURSIVE SectionStart(_)
SectionStart(i) == IF i = 1 THEN 6 ELSE SectionStart(i - 1) + SectionLen(i - 1)
\* the bucket of code c follows the buckets of all smaller codes
BucketStart(i, c) ==
  SectionStart(i) + param.N + 1
    + BucketsLen(tables[i], { x \in DOMAIN tables[i] : x < c })
MatStart(i) ==
  SectionStart(i) + param.N + 1 + BucketsLen(tables[i], DOMAIN tables[i])
Words(pos, n) == SubSeq(file, pos, pos + n - 1)

\* the file consists of the five scalars and L table sections and nothing
\* else; each section starts with the N auxiliary values, the bucket count
\* and the populated buckets in ascending code order
LayoutHead ==
  /\ Len(file) = SectionStart(param.L + 1) - 1
  /\ Words(1, 5) = <<param.M, param.L, param.D, param.N, param.S>>
  /\ \A i \in 1..param.L :
       /\ Words(SectionStart(i), param.N) = SubSeq(rndArray[i], 1, param.N)
       /\ file[SectionStart(i) + param.N] = Cardinality(DOMAIN tables[i])
       /\ \A c \in DOMAIN tables[i] :
            /\ file[BucketStart(i, c)] = c
            /\ file[BucketStart(i, c) + 1] = Len(tables[i][c])
            /\ Words(BucketStart(i, c) + 2, Len(tables[i][c])) = tables[i][c]

\* save has returned after reading only elements that exist
Saved == call.op = "save" /\ proc = "running" /\ SaveInBounds

\* C13 (as amended): the file written by save holds the scalars M, L, D, N, S,
\* then for each of the L tables its N auxiliary values, its bucket count,
\* its populated buckets (code, length, identifiers) in ascending code order,
\* and then, for each bit j in order, row j of the projection matrix
\* (D floats) immediately followed by row j of the rotation matrix (N floats).
C13_LayoutInterleaved ==
  Saved =>
    /\ LayoutHead
    /\ \A i \in 1..param.L : \A j \in 1..param.N :
         /\ Words(MatStart(i) + (j - 1) * (param.D + param.N), param.D) = pcsAll[i][j]
         /\ Words(MatStart(i) + (j - 1) * (param.D + param.N) + param.D, param.N)
              = omegasAll[i][j]

\* C13 witness: a two-table, two-bit trained index with two buckets in a
\* table has been saved
C13_Witness ==
  /\ Saved
  /\ param.L = 2 /\ param.N = 2
  /\ \E i \in 1..param.L : Cardinality(DOMAIN tables[i]) = 2

\* C13 (as claimed): the same head, then the complete projection matrix (N
\* rows of D floats) and only after it the complete rotation matrix (N rows
\* of N floats).
C13_LayoutAsClaimed ==
  Saved =>
    /\ LayoutHead
    /\ \A i \in 1..param.L : \A j \in 1..param.N :
         /\ Words(MatStart(i) + (j - 1) * param.D, param.D) = pcsAll[i][j]
         /\ Words(MatStart(i) + param.N * param.D + (j - 1) * param.N, param.N)
              = omegasAll[i][j]

\* the codes claim C14 allows insert to file v under in table i (1-based): the
\* code of v under the table's own matrices, or any N-bit code for a table
\* that has no matrices of its own
CodesOf(i, v) ==
  IF i <= Len(pcsAll) THEN {getHashVal(i - 1, v)} ELSE 0..(Pow2(param.N) - 1)

\* tab2 is tab with id appended to the posting list of code c (created if
\* absent), every other bucket unchanged
AppendedTo(tab, tab2, c, id) ==
  /\ DOMAIN tab2 = (DOMAIN tab) \cup {c}
  /\ tab2[c] = (IF c \in DOMAIN tab THEN tab[c] ELSE <<>>) \o <<id>>
  /\ \A x \in (DOMAIN tab) \ {c} : tab2[x] = tab[x]

\* C14: insert(id, v) appends id to the posting list of v's code in every
\* table of the live index, also after a rehash has changed the number of
\* tables, creating the bucket if absent; the identifiers already stored keep
\* their order, a duplicate id is stored again and every other bucket of
\* every table is unchanged.
C14_InsertAppendsEverywhere ==
  [][(call'.op = "insert" /\ proc' = "running") =>
       /\ Len(tables') = Len(tables)
       /\ \A i \in 1..Len(tables) :
            \E c \in CodesOf(i, call'.v) :
              AppendedTo(tables[i], tables'[i], c, call'.key)]_vars

\* the code rehash files item i (0-based) under in table k (0-based): the
\* item's exact table-0 code in table 0, the k-th pop of a generator built
\* from the item's own table-0 bits and projections in table k >= 1
RehashCode(k, i) ==
  IF k = 0 THEN getHashVal(0, Data[i + 1])
  ELSE ProbingPops(getHashBits(0, Data[i + 1]), getHashFloats(0, Data[i + 1]))[k]
\* number of positions of the posting list holding id
Occurrences(list, id) == Cardinality({ n \in 1..Len(list) : list[n] = id })
Items == 0..(Len(Data) - 1)

\* C15: after rehash(data, T) with T > 1 the index holds T tables with
\* nothing of what was stored before; every item of data appears exactly once
\* in each table, in table 0 under its exact table-0 code and in table k >= 1
\* under the k-th code popped from a generator seeded with its own table-0
\* bits and projections; every posting list is in ascending item order.
C15_RehashPlacement ==
  (call.op = "rehash" /\ call.T > 1) =>
    /\ Len(tables) = call.T
    /\ \A k \in 0..(call.T - 1) :
         LET tab == tables[k + 1]
         IN /\ TableSize(tab) = Len(Data)
            /\ \A i \in Items :
                 /\ RehashCode(k, i) \in DOMAIN tab
                 /\ Occurrences(tab[RehashCode(k, i)], i) = 1
            /\ \A c \in DOMAIN tab : \A m, n \in 1..Len(tab[c]) :
                 m < n => tab[c][m] < tab[c][n]

\* C15 witness: a two-bit index that held a bucket was rehashed to two
\* tables, and some table files the two items under different codes
C15_Witness ==
  /\ call.op = "rehash" /\ call.T = 2
  /\ param.N = 2 /\ Len(pcsAll[1]) = 2
  /\ \E i \in Items : RehashCode(1, i) # RehashCode(0, i)
  /\ \E k \in 1..2 : Cardinality(DOMAIN tables[k]) = 2

\* the sequence holds pairwise distinct dataset indices in 0..rows-1
DistinctInRange(seq, rows) ==
  /\ \A n \in 1..Len(seq) : seq[n] \in 0..(rows - 1)
  /\ \A m, n \in 1..Len(seq) : m # n => seq[m] # seq[n]

\* what the sampling loop holds, and what it has handed over per table
SamplingSafe ==
  /\ call.op = "sampling" =>
       /\ DistinctInRange(call.seqs, call.rows)
       /\ Len(call.seqs) <= param.S
       /\ param.S > call.rows => call.samples = <<>>
  /\ call.op \in {"sampling", "train"} =>
       \A k \in 1..Len(call.samples) :
         Len(call.samples[k]) = param.S /\ DistinctInRange(call.samples[k], call.rows)
  /\ call.op = "train" => (param.S <= call.rows /\ Len(call.samples) = param.L)

\* C16: the sampling loop of train only ever holds pairwise distinct dataset
\* indices in range; when S <= dataset size it eventually ends, for every
\* table, with exactly S distinct indices and train returns (under fair
\* draws); when S > dataset size no table's loop ever ends and train never
\* returns.
C16_SamplingLoop ==
  /\ []SamplingSafe
  /\ (call.op = "sampling" /\ param.S <= call.rows) ~> (call.op = "train")

\* C16 witness: train has returned on a two-table index after drawing two
\* distinct rows for each table
C16_Witness ==
  /\ call.op = "train" /\ "samples" \in DOMAIN call
  /\ param.L = 2 /\ param.S = 2
  /\ Len(call.samples) = 2
====
